---- MODULE Spec2Model ----
(***************************************************************************)
(* Order orchestration and cache-aside read workflow of order-service.     *)
(*                                                                         *)
(* OrderService.CreateOrder and OrderService.GetOrdersByProductID are      *)
(* modelled as request-parallel calls.  Each call is a small process whose *)
(* steps are the blocking collaborator calls of the Go code: the catalog   *)
(* lookup (HTTP), the store (gorm), the cache (redis) and the publisher    *)
(* (amqp).  The local statements between two collaborator calls belong to  *)
(* the step of the call that precedes them.                                *)
(*                                                                         *)
(* Go values:                                                              *)
(*   - error       : a string, "" standing for nil;                        *)
(*   - []Order     : [isNil, items]; a nil slice and an empty non-nil      *)
(*                   slice are different values (the code tests != nil);   *)
(*   - *Order      : an Order record, NoOrder standing for nil;            *)
(*   - float64     : unit prices are small integers, for which the product *)
(*                   with a quantity is exact in float64;                  *)
(*   - uuid.New()  : a fresh number drawn from a counter;                  *)
(*   - time        : redis counts down the time an entry has left to live; *)
(*                   Order.CreatedAt, which time.Now() fills and no        *)
(*                   statement of the service reads, is not carried.       *)
(***************************************************************************)
EXTENDS Integers, Sequences, FiniteSets, TLC

(***************************************************************************)
(* Bounds of the model.                                                    *)
(***************************************************************************)
MaxOrders == 1
MaxStock == 1
TickStep == 30
MaxLen == 2
MaxRaceOrders == 2

\* 60*time.Second, the expiration OrderCache.Set gives every entry.
CacheTTL == 60

\* Two request slots: two calls at most are in progress at a time.
Calls == {1, 2}
Products == {"p1", "p2"}
\* The catalog reports MaxStock units.  req.Quantity is a Go int: negative,
\* zero, all of the stock and one unit more than the stock are requested.
Stocks == {MaxStock}
Quantities == {-1, 0, MaxStock, MaxStock + 1}
UnitPrices == {10}

(***************************************************************************)
(* Errors.                                                                 *)
(***************************************************************************)
NoError == ""
ErrProductUnavailable == "product not found or service unavailable"
ErrInsufficientStock == "insufficient stock"
ErrFetchTransport == "failed to call product service"
ErrFetchStatus == "product service returned status"
ErrFetchDecode == "failed to decode product response"
FetchErrors == {ErrFetchTransport, ErrFetchStatus, ErrFetchDecode}
StoreErrors == {"db: connection refused", "db: statement failed"}
PublishErrors == {"failed to declare a queue"}
ErrRedis == "redis: connection refused"
ErrJSONSyntax == "json: invalid character"
ErrJSONType == "json: cannot unmarshal string into Go struct field Order.Quantity of type int"

(***************************************************************************)
(* repository.Order and []repository.Order.                                *)
(***************************************************************************)
NoOrder ==
    [ID |-> 0, ProductID |-> "", TotalPrice |-> 0, Quantity |-> 0, Status |-> ""]

NilList == [isNil |-> TRUE, items |-> <<>>]

List(s) == [isNil |-> FALSE, items |-> s]

NoProduct == [Price |-> 0, Qty |-> 0]

\* Mutant: the event announces one unit, whatever the quantity.
OrderCreatedEventOneUnit(productId, quantity) == [productId |-> productId, quantity |-> 1]

\* The body PublishOrderCreated builds from its arguments.
OrderCreatedEvent(productId, quantity) == [productId |-> productId, quantity |-> quantity]

NoEvent == [productId |-> "", quantity |-> 0]

(***************************************************************************)
(* encoding/json as OrderCache uses it.  A redis string is a JSON text:    *)
(* "null", an array of objects, or a text that is not JSON at all.  An     *)
(* object carries the fields of an Order; QuantityIsNumber is FALSE when   *)
(* the "Quantity" member is a JSON string, which json.Unmarshal cannot     *)
(* store into an int.  json.Marshal cannot fail on the Orders of this      *)
(* model (no NaN price, no year beyond 9999), so Set's early return on a   *)
(* marshalling error has no case here.                                     *)
(***************************************************************************)
JNull == [kind |-> "null", elems |-> <<>>]

JInvalid == [kind |-> "invalid", elems |-> <<>>]

JArray(es) == [kind |-> "array", elems |-> es]

MarshalOrder(o) ==
    [ID |-> o.ID, ProductID |-> o.ProductID, TotalPrice |-> o.TotalPrice,
     Quantity |-> o.Quantity, QuantityIsNumber |-> TRUE, Status |-> o.Status]

\* Mutant: the elements are written last to first.
MarshalOrdersReversed(orders) ==
    IF orders.isNil
    THEN JNull
    ELSE JArray([i \in 1..Len(orders.items) |->
                   MarshalOrder(orders.items[Len(orders.items) + 1 - i])])

\* json.Marshal(orders): a nil slice encodes as null, a non-nil one as an array.
MarshalOrders(orders) ==
    IF orders.isNil
    THEN JNull
    ELSE JArray([i \in 1..Len(orders.items) |-> MarshalOrder(orders.items[i])])

\* One array element decoded into an Order: a member of the wrong JSON type
\* is skipped, its field keeps the zero value, and decoding goes on.
UnmarshalOrder(j) ==
    [ID |-> j.ID, ProductID |-> j.ProductID, TotalPrice |-> j.TotalPrice,
     Quantity |-> IF j.QuantityIsNumber THEN j.Quantity ELSE 0,
     Status |-> j.Status]

\* var orders []Order; err = json.Unmarshal([]byte(val), &orders).
\* A syntax error leaves orders nil; null leaves it nil without an error; an
\* array is decoded in full and the first type error is reported at the end.
UnmarshalOrders(val) ==
    CASE val.kind = "invalid" -> [orders |-> NilList, err |-> ErrJSONSyntax]
      [] val.kind = "null" -> [orders |-> NilList, err |-> NoError]
      [] OTHER ->
            [orders |-> List([i \in 1..Len(val.elems) |-> UnmarshalOrder(val.elems[i])]),
             err |-> IF \E i \in 1..Len(val.elems) : ~val.elems[i].QuantityIsNumber
                     THEN ErrJSONType ELSE NoError]

(***************************************************************************)
(* OrderCache over redis.  An entry lives while it has time left (ttl).    *)
(***************************************************************************)
\* Mutant: one key for every product.
GetCacheKeyShared(productID) == "orders:product:"

GetCacheKeyForProduct(productID) == "orders:product:" \o productID

Keys == {GetCacheKeyForProduct(p) : p \in Products}

NoEntry == [present |-> FALSE, val |-> JNull, ttl |-> 0]

Live(entry) == entry.present /\ entry.ttl > 0

\* What OrderCache.Get finds under a key: "none" (redis.Nil), or the kind of
\* JSON text of the live entry.
EntryKind(entry) ==
    IF ~Live(entry) THEN "none"
    ELSE IF \E i \in 1..Len(entry.val.elems) : ~entry.val.elems[i].QuantityIsNumber
    THEN "illtyped"
    ELSE entry.val.kind

\* The orders the text of a live entry decodes to; nil for no entry.
EntryOrders(entry) ==
    IF Live(entry) THEN UnmarshalOrders(entry.val).orders ELSE NilList

\* OrderCache.Get: fault is the error of the redis round trip ("" for none).
OrderCacheGet(entry, fault) ==
    IF fault # NoError THEN [orders |-> NilList, err |-> fault]
    ELSE IF ~Live(entry) THEN [orders |-> NilList, err |-> NoError]
    ELSE UnmarshalOrders(entry.val)

\* Mutant: the entry is stored only when the key holds no live entry.
OrderCacheSetIfAbsent(r, key, orders, fault) ==
    IF fault # NoError \/ Live(r[key]) THEN r
    ELSE [r EXCEPT ![key] = [present |-> TRUE, val |-> MarshalOrders(orders),
                             ttl |-> CacheTTL]]

\* Mutant: the entry is stored although the call reports an error.
OrderCacheSetDespiteFault(r, key, orders, fault) ==
    [r EXCEPT ![key] = [present |-> TRUE, val |-> MarshalOrders(orders),
                        ttl |-> CacheTTL]]

\* OrderCache.Set: the redis contents after the call.  A failed round trip
\* stores nothing.
OrderCacheSet(r, key, orders, fault) ==
    IF fault # NoError THEN r
    ELSE [r EXCEPT ![key] = [present |-> TRUE, val |-> MarshalOrders(orders),
                             ttl |-> CacheTTL]]

(***************************************************************************)
(* OrderRepository (gorm).  Find runs the query and, when it succeeds,     *)
(* stores a slice made with reflect.MakeSlice into the destination: the    *)
(* result of a successful query is never nil, also with no row matching.   *)
(***************************************************************************)
GetByProductID(rows, productID) ==
    LET Match(o) == o.ProductID = productID
    IN  List(SelectSeq(rows, Match))

(***************************************************************************)
(* The decisions of OrderService.                                          *)
(***************************************************************************)
\* fetchProductInfo: the three failure causes give three different errors.
fetchProductInfo(outcome, price, qty) ==
    IF outcome = "ok"
    THEN [product |-> [Price |-> price, Qty |-> qty], err |-> NoError]
    ELSE [product |-> NoProduct, err |-> outcome]

\* Mutant: the lookup error is passed on as it is.
CatalogFailureErrorVerbatim(fetchErr) == fetchErr

\* CreateOrder, step 1: whatever the lookup error, one error is returned.
CatalogFailureError(fetchErr) == ErrProductUnavailable

\* Mutant: the stock check also turns away a quantity that is not positive.
StockInsufficientOrNotPositive(product, quantity) ==
    product.Qty < quantity \/ quantity <= 0

\* Mutant: the stock check lets every quantity through.
StockInsufficientNever(product, quantity) == FALSE

\* Mutant: the stock check lets one unit too many through.
StockInsufficientOffByOne(product, quantity) == product.Qty + 1 < quantity

\* CreateOrder, step 2: if product.Qty < req.Quantity.
StockInsufficient(product, quantity) == product.Qty < quantity

\* Mutant: the Order is created without a status.
NewOrderNoStatus(id, productID, quantity, product) ==
    [ID |-> id, ProductID |-> productID, TotalPrice |-> product.Price * quantity,
     Quantity |-> quantity, Status |-> ""]

\* Mutant: the total is the unit price, whatever the quantity.
NewOrderUnitPrice(id, productID, quantity, product) ==
    [ID |-> id, ProductID |-> productID, TotalPrice |-> product.Price,
     Quantity |-> quantity, Status |-> "PENDING"]

\* CreateOrder, step 3: the Order literal.
NewOrder(id, productID, quantity, product) ==
    [ID |-> id, ProductID |-> productID, TotalPrice |-> product.Price * quantity,
     Quantity |-> quantity, Status |-> "PENDING"]

\* Mutant: the store's error is replaced by an error of the service.
CreateStoreErrorWrapped(err) == "failed to save order"

\* CreateOrder, step 3: if err := s.repo.Create(order); err != nil { return nil, err }.
CreateStoreError(err) == err

\* Mutant: a failed publish fails the call.
CreateResultFailOnPublish(order, pubErr) ==
    IF pubErr # NoError
    THEN [order |-> NoOrder, list |-> NilList, err |-> pubErr]
    ELSE [order |-> order, list |-> NilList, err |-> NoError]

\* CreateOrder, step 4: the publish error is logged; return order, nil.
CreateResult(order, pubErr) == [order |-> order, list |-> NilList, err |-> NoError]

\* Mutant: an empty cached list is taken for a miss.
CacheHitNonEmpty(cachedOrders) ==
    ~cachedOrders.isNil /\ Len(cachedOrders.items) > 0

\* GetOrdersByProductID: if cachedOrders != nil.
CacheHit(cachedOrders) == ~cachedOrders.isNil

\* Mutant: a failed store query is answered with an empty list.
ListStoreErrorSwallowed(err) == [order |-> NoOrder, list |-> List(<<>>), err |-> NoError]

\* GetOrdersByProductID: if err != nil { return nil, err } after the store query.
ListStoreError(err) == [order |-> NoOrder, list |-> NilList, err |-> err]

NoResult == [order |-> NoOrder, list |-> NilList, err |-> NoError]

(***************************************************************************)
(* State.                                                                  *)
(*   nextId    the next identifier uuid.New() gives                        *)
(*   store     the orders table, in insertion order                        *)
(*   redis     the cache server: key -> entry                              *)
(*   call      the calls in progress: position, local variables, and a     *)
(*             record of the collaborator calls made so far                *)
(*   last      the call that has just returned, as it was at its return    *)
(*             statement, with the result it gives its caller; IdleCall    *)
(*             once the caller has taken the result                        *)
(*   given     the orders an observer of the callers has seen them take in *)
(*             lists (ObservedTakeResult); empty where no one observes     *)
(***************************************************************************)
VARIABLES nextId, store, redis, call, last, given

vars == <<nextId, store, redis, call, last, given>>

\* An Order object whose "Quantity" member is a JSON string.
IllTypedObject(p) ==
    [ID |-> 0, ProductID |-> p, TotalPrice |-> 0, Quantity |-> 0,
     QuantityIsNumber |-> FALSE, Status |-> "PENDING"]

\* The texts the redis server may hold under a key of this service when the
\* service starts (NewOrderCache takes a client of a server that is already
\* running, and main only pings it): entries left by another writer of the
\* same keys, such as a deployment with another Order schema.
ForeignValues(p) == {JNull, JInvalid, JArray(<<IllTypedObject(p)>>)}

\* One key at most holds such an entry, that of the first product.
ForeignEntries == {<<"p1", v>> : v \in ForeignValues("p1")}

InitialRedis ==
    {[k \in Keys |-> NoEntry]} \cup
    {[k \in Keys |-> IF k = GetCacheKeyForProduct(p)
                     THEN [present |-> TRUE, val |-> v, ttl |-> CacheTTL]
                     ELSE NoEntry] : <<p, v>> \in ForeignEntries}

IdleCall ==
    [pc |-> "idle", op |-> "none", productID |-> "", quantity |-> 0,
     product |-> NoProduct, order |-> NoOrder, cacheKey |-> "",
     cachedOrders |-> NilList, orders |-> NilList, ret |-> NoResult,
     \* what the collaborators answered to this call
     fetchErr |-> NoError, storeErr |-> NoError, pubErr |-> NoError,
     getErr |-> NoError, setErr |-> NoError,
     \* what redis held under the key when this call read the cache
     entryKind |-> "none",
     \* the event this call handed to the publisher
     event |-> NoEvent,
     \* how often this call invoked each collaborator
     nCatalog |-> 0, nStoreWrite |-> 0, nPublish |-> 0,
     nCacheGet |-> 0, nStoreQuery |-> 0, nCacheSet |-> 0,
     \* the seconds a client of the cache let pass since its Set
     slept |-> 0]

Init ==
    /\ nextId = 1
    /\ store = <<>>
    /\ redis \in InitialRedis
    /\ call = [c \in Calls |-> IdleCall]
    /\ last = IdleCall
    /\ given = {}

\* No result is waiting for its caller.
Taken == last = IdleCall

Free(c) == call[c].pc = "idle"

\* The call in slot c goes on with the local state rec.
Continue(c, rec) ==
    /\ call' = [call EXCEPT ![c] = rec]
    /\ UNCHANGED <<last, given>>

\* The call in slot c returns result; rec is its local state at the return.
Return(c, rec, result) ==
    /\ call' = [call EXCEPT ![c] = IdleCall]
    /\ last' = [rec EXCEPT !.pc = "done", !.ret = result]
    /\ UNCHANGED given

(***************************************************************************)
(* CreateOrder.                                                            *)
(***************************************************************************)
\* A request CreateOrderRequest{ProductID: p, Quantity: q} arrives.
\* Steps 1 to 3 up to the Order literal: the catalog lookup, the stock check
\* and the construction of the Order.  A request is taken while fewer than
\* limit identifiers have been drawn.
CreateOrderWithin(limit, c, p, q) ==
    /\ Taken
    /\ Free(c)
    /\ nextId <= limit
    /\ \E outcome \in {"ok"} \cup FetchErrors, price \in UnitPrices, qty \in Stocks :
         LET f == fetchProductInfo(outcome, price, qty)
             me == [IdleCall EXCEPT !.op = "create", !.productID = p, !.quantity = q,
                                    !.nCatalog = 1, !.fetchErr = f.err,
                                    !.product = f.product]
         IN  IF f.err # NoError
             THEN /\ Return(c, me, [order |-> NoOrder, list |-> NilList,
                                    err |-> CatalogFailureError(f.err)])
                  /\ UNCHANGED nextId
             ELSE IF StockInsufficient(f.product, q)
             THEN /\ Return(c, me, [order |-> NoOrder, list |-> NilList,
                                    err |-> ErrInsufficientStock])
                  /\ UNCHANGED nextId
             ELSE /\ Continue(c, [me EXCEPT !.pc = "persist",
                                    !.order = NewOrder(nextId, p, q, f.product)])
                  /\ nextId' = nextId + 1
    /\ UNCHANGED <<store, redis>>

CreateOrder(c, p, q) == CreateOrderWithin(MaxOrders, c, p, q)

\* Mutant: a successful store write also deletes the product's cache entry.
RepoCreateInvalidating(c) ==
    /\ Taken
    /\ call[c].pc = "persist"
    /\ \E err \in {NoError} \cup StoreErrors :
         LET me == [call[c] EXCEPT !.nStoreWrite = @ + 1, !.storeErr = err]
         IN  IF err # NoError
             THEN /\ Return(c, me, [order |-> NoOrder, list |-> NilList,
                                    err |-> CreateStoreError(err)])
                  /\ UNCHANGED <<store, redis>>
             ELSE /\ Continue(c, [me EXCEPT !.pc = "publish"])
                  /\ store' = Append(store, call[c].order)
                  /\ redis' = [redis EXCEPT
                                 ![GetCacheKeyForProduct(call[c].productID)] = NoEntry]
    /\ UNCHANGED nextId

\* Step 3: s.repo.Create(order).
RepoCreate(c) ==
    /\ Taken
    /\ call[c].pc = "persist"
    /\ \E err \in {NoError} \cup StoreErrors :
         LET me == [call[c] EXCEPT !.nStoreWrite = @ + 1, !.storeErr = err]
         IN  IF err # NoError
             THEN /\ Return(c, me, [order |-> NoOrder, list |-> NilList,
                                    err |-> CreateStoreError(err)])
                  /\ UNCHANGED store
             ELSE /\ Continue(c, [me EXCEPT !.pc = "publish"])
                  /\ store' = Append(store, call[c].order)
    /\ UNCHANGED <<nextId, redis>>

\* Step 4: s.publisher.PublishOrderCreated(order.ProductID, order.Quantity),
\* then return order, nil.
Publish(c) ==
    /\ Taken
    /\ call[c].pc = "publish"
    /\ \E err \in {NoError} \cup PublishErrors :
         Return(c, [call[c] EXCEPT !.nPublish = @ + 1, !.pubErr = err,
                                   !.event = OrderCreatedEvent(call[c].order.ProductID,
                                                               call[c].order.Quantity)],
                CreateResult(call[c].order, err))
    /\ UNCHANGED <<nextId, store, redis>>

(***************************************************************************)
(* GetOrdersByProductID.                                                   *)
(***************************************************************************)
\* A request for the orders of product p arrives: the cache key is derived,
\* s.cache.Get(cacheKey) is called, its error is logged and the value it
\* returned is tested.
GetOrdersByProductID(c, p) ==
    /\ Taken
    /\ Free(c)
    /\ \E fault \in {NoError, ErrRedis} :
         LET key == GetCacheKeyForProduct(p)
             g == OrderCacheGet(redis[key], fault)
             me == [IdleCall EXCEPT !.op = "list", !.productID = p, !.cacheKey = key,
                                    !.nCacheGet = 1, !.cachedOrders = g.orders,
                                    !.getErr = g.err,
                                    !.entryKind = EntryKind(redis[key])]
         IN  IF CacheHit(g.orders)
             THEN Return(c, me, [order |-> NoOrder, list |-> g.orders,
                                 err |-> NoError])
             ELSE Continue(c, [me EXCEPT !.pc = "storeQuery"])
    /\ UNCHANGED <<nextId, store, redis>>

\* s.repo.GetByProductID(productID).
RepoGetByProductID(c) ==
    /\ Taken
    /\ call[c].pc = "storeQuery"
    /\ \E err \in {NoError} \cup StoreErrors :
         LET me == [call[c] EXCEPT !.nStoreQuery = @ + 1, !.storeErr = err]
         IN  IF err # NoError
             THEN Return(c, me, ListStoreError(err))
             ELSE Continue(c, [me EXCEPT !.pc = "cacheSet",
                                  !.orders = GetByProductID(store, call[c].productID)])
    /\ UNCHANGED <<nextId, store, redis>>

\* s.cache.Set(cacheKey, orders), the logging of its error, return orders, nil.
CacheSet(c) ==
    /\ Taken
    /\ call[c].pc = "cacheSet"
    /\ \E fault \in {NoError, ErrRedis} :
         /\ redis' = OrderCacheSet(redis, call[c].cacheKey, call[c].orders, fault)
         /\ Return(c, [call[c] EXCEPT !.nCacheSet = @ + 1, !.setErr = fault],
                   [order |-> NoOrder, list |-> call[c].orders, err |-> NoError])
    /\ UNCHANGED <<nextId, store>>

(***************************************************************************)
(* The environment of the service.                                         *)
(***************************************************************************)
\* The redis contents r once TickStep more seconds have passed: redis drops
\* the entries whose time is up.
AfterTick(r) ==
    [k \in Keys |->
       IF Live(r[k]) /\ r[k].ttl > TickStep
       THEN [r[k] EXCEPT !.ttl = @ - TickStep]
       ELSE NoEntry]

\* TickStep seconds pass.
Tick ==
    /\ Taken
    /\ \E k \in Keys : Live(redis[k])
    /\ redis' = AfterTick(redis)
    /\ UNCHANGED <<nextId, store, call, last, given>>

\* The caller takes the result of the call that has just returned.  Nothing
\* else happens in between: a return and the taking of its result are one
\* moment of the service.
TakeResult ==
    /\ ~Taken
    /\ last' = IdleCall
    /\ UNCHANGED <<nextId, store, redis, call, given>>

Next ==
    \/ \E c \in Calls, p \in Products, q \in Quantities : CreateOrder(c, p, q)
    \/ \E c \in Calls : RepoCreate(c)
    \/ \E c \in Calls : Publish(c)
    \/ \E c \in Calls, p \in Products : GetOrdersByProductID(c, p)
    \/ \E c \in Calls : RepoGetByProductID(c)
    \/ \E c \in Calls : CacheSet(c)
    \/ Tick
    \/ TakeResult

Spec == Init /\ [][Next]_vars

(***************************************************************************)
(* OrderCache on its own: clients that call Set and, some time later, Get  *)
(* with the same key, for every key and every list of at most MaxLen       *)
(* orders.  One client at a time is between its Set and its Get.           *)
(***************************************************************************)
SampleOrders ==
    {NewOrder(1, "p1", MaxStock, [Price |-> 10, Qty |-> MaxStock]),
     NewOrder(2, "p2", -1, [Price |-> 10, Qty |-> MaxStock])}

\* The values of type []Order: the nil slice and the slices of 0 to MaxLen
\* orders.
OrderLists ==
    {NilList} \cup
    {List(s) : s \in UNION {[1..n -> SampleOrders] : n \in 0..MaxLen}}

CacheInit ==
    /\ nextId = 1
    /\ store = <<>>
    /\ redis = [k \in Keys |-> NoEntry]
    /\ call = [c \in Calls |-> IdleCall]
    /\ last = IdleCall
    /\ given = {}

\* cache.Set(key, orders).
RoundTripSet(c, key, orders) ==
    /\ Taken
    /\ \A d \in Calls : Free(d)
    /\ \E fault \in {NoError, ErrRedis} :
         /\ redis' = OrderCacheSet(redis, key, orders, fault)
         /\ Continue(c, [IdleCall EXCEPT !.pc = "written", !.op = "roundtrip",
                                         !.cacheKey = key, !.orders = orders,
                                         !.nCacheSet = 1, !.setErr = fault])
    /\ UNCHANGED <<nextId, store>>

\* The clients let TickStep seconds pass.
RoundTripSleep ==
    /\ Taken
    /\ \E c \in Calls : call[c].pc = "written"
    /\ \A c \in Calls : call[c].slept < CacheTTL
    /\ redis' = AfterTick(redis)
    /\ call' = [c \in Calls |->
                  IF call[c].pc = "written"
                  THEN [call[c] EXCEPT !.slept = @ + TickStep]
                  ELSE call[c]]
    /\ UNCHANGED <<nextId, store, last, given>>

\* cache.Get(key), with the key of the client's Set.
RoundTripGet(c) ==
    /\ Taken
    /\ call[c].pc = "written"
    /\ \E fault \in {NoError, ErrRedis} :
         LET g == OrderCacheGet(redis[call[c].cacheKey], fault)
         IN  Return(c, [call[c] EXCEPT !.nCacheGet = 1, !.cachedOrders = g.orders,
                                       !.getErr = g.err,
                                       !.entryKind = EntryKind(redis[call[c].cacheKey])],
                    [order |-> NoOrder, list |-> g.orders, err |-> g.err])
    /\ UNCHANGED <<nextId, store, redis>>

CacheNext ==
    \/ \E c \in Calls, key \in Keys, orders \in OrderLists : RoundTripSet(c, key, orders)
    \/ RoundTripSleep
    \/ \E c \in Calls : RoundTripGet(c)
    \/ TakeResult

CacheSpec == CacheInit /\ [][CacheNext]_vars

(***************************************************************************)
(* Races.  Requests for one product that run into one another: redis       *)
(* starts empty, MaxRaceOrders orders are asked for, and an observer notes *)
(* which orders the callers are given in lists by calls that met no cache  *)
(* error.                                                                  *)
(***************************************************************************)
RaceProduct == "p1"

RaceInit ==
    /\ nextId = 1
    /\ store = <<>>
    /\ redis = [k \in Keys |-> NoEntry]
    /\ call = [c \in Calls |-> IdleCall]
    /\ last = IdleCall
    /\ given = {}

\* The orders of a list.
ItemsOf(list) == {list.items[i] : i \in 1..Len(list.items)}

\* The caller takes the result of the call that has just returned, and the
\* observer notes the orders of a list whose call met no cache error.
ObservedTakeResult ==
    /\ ~Taken
    /\ last' = IdleCall
    /\ given' = given \cup (IF /\ last.op = "list"
                                /\ last.getErr = NoError
                                /\ last.setErr = NoError
                             THEN ItemsOf(last.ret.list)
                             ELSE {})
    /\ UNCHANGED <<nextId, store, redis, call>>

RaceNext ==
    \/ \E c \in Calls, q \in Quantities :
          CreateOrderWithin(MaxRaceOrders, c, RaceProduct, q)
    \/ \E c \in Calls : RepoCreate(c)
    \/ \E c \in Calls : Publish(c)
    \/ \E c \in Calls : GetOrdersByProductID(c, RaceProduct)
    \/ \E c \in Calls : RepoGetByProductID(c)
    \/ \E c \in Calls : CacheSet(c)
    \/ Tick
    \/ ObservedTakeResult

RaceSpec == RaceInit /\ [][RaceNext]_vars

(***************************************************************************)
(* One request at a time: a request arrives when no call is in progress,   *)
(* so that every call runs from its arrival to its return with only time   *)
(* passing in between.                                                     *)
(***************************************************************************)
AllFree == \A c \in Calls : Free(c)

SeqNext ==
    \/ \E c \in Calls, p \in Products, q \in Quantities :
          AllFree /\ CreateOrder(c, p, q)
    \/ \E c \in Calls : RepoCreate(c)
    \/ \E c \in Calls : Publish(c)
    \/ \E c \in Calls, p \in Products : AllFree /\ GetOrdersByProductID(c, p)
    \/ \E c \in Calls : RepoGetByProductID(c)
    \/ \E c \in Calls : CacheSet(c)
    \/ Tick
    \/ TakeResult

SeqSpec == Init /\ [][SeqNext]_vars

(***************************************************************************)
(* Properties.                                                             *)
(***************************************************************************)
InStore(o) == \E i \in 1..Len(store) : store[i] = o

\* A CreateOrder call has just returned.
CreateReturned == last.pc = "done" /\ last.op = "create"

\* A GetOrdersByProductID call has just returned.
ListReturned == last.pc = "done" /\ last.op = "list"

\* C1: a CreateOrder whose catalog lookup succeeds, whose quantity is at most
\* the available quantity and whose store write does not fail returns no
\* error and an Order with the request's productId and quantity, totalPrice =
\* unitPrice * quantity and status "PENDING"; that Order is the one written
\* to the store, once.
C1_CreateOrderSuccess ==
    (/\ CreateReturned
     /\ last.fetchErr = NoError
     /\ last.quantity <= last.product.Qty
     /\ last.storeErr = NoError)
    => /\ last.ret.err = NoError
       /\ last.ret.order.ProductID = last.productID
       /\ last.ret.order.Quantity = last.quantity
       /\ last.ret.order.TotalPrice = last.product.Price * last.quantity
       /\ last.ret.order.Status = "PENDING"
       /\ last.nStoreWrite = 1
       /\ InStore(last.ret.order)
       /\ Cardinality({i \in 1..Len(store) : store[i].ID = last.ret.order.ID}) = 1

C1_Witness ==
    /\ CreateReturned
    /\ last.ret.err = NoError
    /\ last.quantity = MaxStock
    /\ last.ret.order.TotalPrice = last.product.Price * MaxStock
    /\ InStore(last.ret.order)

\* C2: a CreateOrder whose catalog lookup succeeds and whose quantity exceeds
\* the available quantity returns "insufficient stock" and no Order, and does
\* nothing more: no store write, no publish, no cache access; no call is
\* past the stock check with such a quantity.
C2_InsufficientStock ==
    /\ (/\ CreateReturned
        /\ last.fetchErr = NoError
        /\ last.quantity > last.product.Qty)
       => /\ last.ret.err = ErrInsufficientStock
          /\ last.ret.order = NoOrder
          /\ last.nStoreWrite = 0
          /\ last.nPublish = 0
          /\ last.nCacheGet = 0
          /\ last.nCacheSet = 0
          /\ last.order = NoOrder
    /\ \A c \in Calls :
          call[c].op = "create" => call[c].quantity <= call[c].product.Qty

C2_Witness ==
    /\ CreateReturned
    /\ last.fetchErr = NoError
    /\ last.quantity = last.product.Qty + 1
    /\ last.ret.err = ErrInsufficientStock

\* C3: when the catalog lookup fails, whatever the cause, CreateOrder returns
\* the one error ProductUnavailable and no Order, and neither writes the store
\* nor publishes; no call goes on after a failed lookup.
C3_ProductUnavailable ==
    /\ (CreateReturned /\ last.fetchErr # NoError)
       => /\ last.fetchErr \in FetchErrors
          /\ last.ret.err = ErrProductUnavailable
          /\ last.ret.order = NoOrder
          /\ last.nStoreWrite = 0
          /\ last.nPublish = 0
    /\ \A c \in Calls : call[c].op = "create" => call[c].fetchErr = NoError

C3_Witness ==
    /\ CreateReturned
    /\ last.fetchErr = ErrFetchDecode
    /\ last.ret.err = ErrProductUnavailable

\* C4: when OrderStore.Create fails, CreateOrder returns the store's error
\* unchanged and no Order, and the publisher is not invoked for that call.
C4_PersistenceFailure ==
    /\ (CreateReturned /\ last.storeErr # NoError)
       => /\ last.nStoreWrite = 1
          /\ last.ret.err = last.storeErr
          /\ last.ret.order = NoOrder
          /\ last.nPublish = 0
          /\ last.event = NoEvent
    /\ \A c \in Calls : call[c].pc = "publish" => call[c].storeErr = NoError

C4_Witness ==
    /\ CreateReturned
    /\ last.storeErr = "db: statement failed"
    /\ last.ret.err = "db: statement failed"

\* C5: when the publish fails after a successful store write, CreateOrder
\* returns the created Order and no error, and the Order is still in the
\* store.
C5_PublishFailureInvisible ==
    (CreateReturned /\ last.pubErr # NoError)
    => /\ last.nStoreWrite = 1
       /\ last.storeErr = NoError
       /\ last.nPublish = 1
       /\ last.ret.err = NoError
       /\ last.ret.order = last.order
       /\ last.ret.order # NoOrder
       /\ InStore(last.order)

\* An order is persisted and its notification was not delivered.
C5_Witness ==
    /\ CreateReturned
    /\ last.pubErr # NoError
    /\ last.ret.err = NoError
    /\ InStore(last.ret.order)

\* A GetOrdersByProductID call in progress, past its cache read.
AtStore(c) == call[c].pc \in {"storeQuery", "cacheSet"}

\* C6, as stated: whenever the cache holds an unexpired entry that Set wrote
\* under the product's key, the call returns the cached list and does not
\* query the store; only a call that found no entry goes to the store.
C6_Original ==
    /\ \A c \in Calls : AtStore(c) => call[c].entryKind # "array"
    /\ (ListReturned /\ last.entryKind = "array")
       => /\ last.nStoreQuery = 0
          /\ last.ret.list = last.cachedOrders

\* C6, amended: whenever the cache holds an unexpired entry that Set wrote
\* under the product's key, the entry of an empty list included, and the
\* cache read does not fail, the call returns the list decoded from that
\* entry, with no error, and queries neither the store nor writes the cache.
\* A call goes to the store only when Get returned nil: there was no entry,
\* the read failed with nothing decoded, or the entry is the JSON text null.
C6_CacheHitSkipsStore ==
    /\ \A c \in Calls :
          AtStore(c) =>
             /\ call[c].cachedOrders.isNil
             /\ \/ call[c].entryKind \in {"none", "null"}
                \/ call[c].getErr # NoError
    /\ (ListReturned /\ last.entryKind = "array" /\ last.getErr = NoError)
       => /\ ~last.cachedOrders.isNil
          /\ last.ret.list = last.cachedOrders
          /\ last.ret.err = NoError
          /\ last.nStoreQuery = 0
          /\ last.nCacheSet = 0
          /\ Live(redis[last.cacheKey])
          /\ last.ret.list = UnmarshalOrders(redis[last.cacheKey].val).orders

\* A call is answered from the entry Set wrote for an empty list.
C6_Witness ==
    /\ ListReturned
    /\ last.entryKind = "array"
    /\ last.getErr = NoError
    /\ last.nStoreQuery = 0
    /\ last.ret.list = List(<<>>)

\* C7, as stated: after a cache miss or a cache read error, the call queries
\* the store exactly once; when the query succeeds it writes the cache once,
\* with the fetched list, under the product's key, and returns that list.
C7_MissQueriesStoreOnce ==
    (ListReturned /\ (last.entryKind = "none" \/ last.getErr # NoError))
    => /\ last.nStoreQuery = 1
       /\ last.storeErr = NoError
          => /\ last.nCacheSet = 1
             /\ last.cacheKey = GetCacheKeyForProduct(last.productID)
             /\ last.ret.list = last.orders
             /\ last.ret.err = NoError
             /\ last.setErr = NoError
                => redis[last.cacheKey] =
                      [present |-> TRUE, val |-> MarshalOrders(last.orders),
                       ttl |-> CacheTTL]

\* C7 outside the case of C8: the same statement for the calls whose cache
\* read returned nil.
C7_WhenGetReturnedNil ==
    (ListReturned /\ last.cachedOrders.isNil)
    => /\ last.nStoreQuery = 1
       /\ last.storeErr = NoError
          => /\ last.nCacheSet = 1
             /\ last.cacheKey = GetCacheKeyForProduct(last.productID)
             /\ last.ret.list = last.orders
             /\ last.ret.err = NoError
             /\ last.setErr = NoError
                => redis[last.cacheKey] =
                      [present |-> TRUE, val |-> MarshalOrders(last.orders),
                       ttl |-> CacheTTL]

\* C8, as stated: whatever Get returns together with an error, the call does
\* not surface the error and returns nothing taken from the cache: it
\* queries the store and returns the store's outcome.
C8_CacheErrorIsMiss ==
    (ListReturned /\ last.getErr # NoError)
    => /\ last.nStoreQuery = 1
       /\ last.ret.err = last.storeErr
       /\ last.ret.list = (IF last.storeErr = NoError THEN last.orders ELSE NilList)

\* C9: when the store query fails, the call returns the store's error and no
\* list, and does not write the cache.
C9_StoreQueryFailure ==
    /\ (ListReturned /\ last.storeErr # NoError)
       => /\ last.nStoreQuery = 1
          /\ last.ret.err = last.storeErr
          /\ last.ret.list = NilList
          /\ last.nCacheSet = 0
    /\ \A c \in Calls : call[c].pc = "cacheSet" => call[c].storeErr = NoError

C9_Witness ==
    /\ ListReturned
    /\ last.storeErr = "db: connection refused"
    /\ last.ret.err = "db: connection refused"
    /\ last.ret.list = NilList

\* The call that has just returned ended with a failed cache write.
SetFailed == ListReturned /\ last.setErr # NoError

\* C10, as stated: when the cache write fails after a successful store query,
\* the call returns the fetched list with no error and the cache is left
\* without the entry, so that the next read goes to the store: a Get that
\* reaches redis right after the return finds nothing.  (Stated for the
\* calls that found no entry, or an entry Set wrote, when they read the
\* cache.)
C10_Original ==
    (SetFailed /\ last.entryKind \in {"none", "array"})
    => /\ last.ret.list = last.orders
       /\ last.ret.err = NoError
       /\ OrderCacheGet(redis[last.cacheKey], NoError).orders.isNil

\* C10, amended: when the cache write fails after a successful store query,
\* the call returns the fetched list with no error and the failed write
\* leaves the cache as it was: the fetched list is not stored, and an entry
\* the key already held is still there.
C10_CacheWriteFailure ==
    /\ [](SetFailed
          => /\ last.nStoreQuery = 1
             /\ last.storeErr = NoError
             /\ last.nCacheSet = 1
             /\ ~last.orders.isNil
             /\ last.ret.list = last.orders
             /\ last.ret.err = NoError)
    /\ [][SetFailed' /\ Taken => redis' = redis]_vars

\* The write of a fetched, non-empty list fails and the key holds no entry.
C10_Witness ==
    /\ SetFailed
    /\ last.ret.err = NoError
    /\ Len(last.ret.list.items) > 0
    /\ ~Live(redis[last.cacheKey])

\* A client of the cache has just been answered by its Get.
RoundTripDone == last.pc = "done" /\ last.op = "roundtrip"

C12_CollaboratorOrder ==
    /\ \A c \in Calls :
          call[c].op = "create"
          => /\ call[c].nCatalog = 1
             /\ call[c].fetchErr = NoError
             /\ call[c].nPublish = 0
             /\ call[c].event = NoEvent
             /\ call[c].pc = "persist"
                => call[c].nStoreWrite = 0 /\ ~InStore(call[c].order)
             /\ call[c].pc = "publish"
                => /\ call[c].nStoreWrite = 1
                   /\ call[c].storeErr = NoError
                   /\ InStore(call[c].order)
    /\ CreateReturned
       => /\ last.nCatalog = 1
          /\ last.nStoreWrite <= 1
          /\ last.nPublish <= 1
          /\ last.nStoreWrite = 1 => last.fetchErr = NoError
          /\ last.nPublish = 0 => last.event = NoEvent
          /\ last.nPublish = 1
             => /\ last.nStoreWrite = 1
                /\ last.storeErr = NoError
                /\ InStore(last.order)
                /\ last.order.ProductID = last.productID
                /\ last.order.Quantity = last.quantity
                /\ last.event = [productId |-> last.order.ProductID,
                                 quantity |-> last.order.Quantity]

\* A call has gone through the three collaborators and its event, for no
\* unit at all, was handed to the publisher.
C12_Witness ==
    /\ CreateReturned
    /\ last.nCatalog = 1
    /\ last.nStoreWrite = 1
    /\ last.nPublish = 1
    /\ last.pubErr = NoError
    /\ last.quantity = 0
    /\ last.event = [productId |-> last.productID, quantity |-> 0]
    /\ InStore(last.order)

\* The quantities of the orders in the store, added up.
RECURSIVE SumQuantity(_)
SumQuantity(rows) ==
    IF rows = <<>> THEN 0 ELSE Head(rows).Quantity + SumQuantity(Tail(rows))

\* C13: the stock check compares the requested quantity with the quantity
\* the catalog reports, and with nothing else: every call past the check,
\* and every Order in the store, has a quantity of at most the available
\* quantity, whatever the store already holds and whichever other call is
\* past the check; a call past the check is written as it is.
C13_StockCheckPerCall ==
    /\ \A c \in Calls :
          call[c].pc \in {"persist", "publish"}
          => /\ call[c].quantity <= call[c].product.Qty
             /\ call[c].order.Quantity = call[c].quantity
             /\ call[c].pc = "publish" => InStore(call[c].order)
    /\ \A i \in 1..Len(store) : store[i].Quantity <= MaxStock
    /\ Len(store) <= MaxRaceOrders

\* Two orders for the product are in the store, each for no more than the
\* MaxStock units the catalog reports, together for more.  The order written
\* first drew its identifier last: its call passed the stock check after the
\* other call had passed it and before the other call wrote.
C13_Witness ==
    /\ Len(store) = 2
    /\ store[1].ID > store[2].ID
    /\ store[1].ProductID = store[2].ProductID
    /\ store[1].Quantity <= MaxStock
    /\ store[2].Quantity <= MaxStock
    /\ SumQuantity(store) > MaxStock

\* C14: every Order in the store has status "PENDING", and no step modifies
\* or removes a stored Order: a step leaves the store as it is or appends
\* one Order to it, so that every stored Order keeps its id, productId,
\* quantity, totalPrice and status.
C14_StoreOnlyGrows ==
    /\ [](\A i \in 1..Len(store) : store[i].Status = "PENDING")
    /\ [][/\ Len(store') >= Len(store)
           /\ Len(store') <= Len(store) + 1
           /\ \A i \in 1..Len(store) : store'[i] = store[i]]_vars

\* The store holds two orders, and a read that began after the first was
\* written has returned it as it is in the store.
C14_Witness ==
    /\ Len(store) = 2
    /\ \A i \in 1..2 : store[i].Status = "PENDING"
    /\ ListReturned
    /\ last.nStoreQuery = 1
    /\ last.ret.list = List(<<store[1]>>)

\* Product identifiers the key function is compared on: those of the model,
\* the empty one, and identifiers that contain or continue the key prefix.
KeyProbes == Products \cup {"", "p", ":p1", "orders:product:", "orders:product:p1"}

\* Two different identifiers never give the same key, and the key of a
\* product is the prefix followed by its identifier.
KeysCollisionFree ==
    /\ \A p \in KeyProbes, q \in KeyProbes :
          GetCacheKeyForProduct(p) = GetCacheKeyForProduct(q) => p = q
    /\ \A p \in Products : GetCacheKeyForProduct(p) = "orders:product:" \o p

\* A GetOrdersByProductID call has just returned what it found in the cache.
ServedFromCache == ListReturned /\ last.nStoreQuery = 0

\* C15: the cache key is "orders:product:" followed by the productId, and
\* two different productIds never give the same key; every call reads and
\* writes the cache under the key of its own product, and a call served from
\* the cache returns what the entry under that key decodes to, in which every
\* Order is of the product asked for.
C15_KeyPerProduct ==
    /\ KeysCollisionFree
    /\ \A c \in Calls :
          call[c].op = "list"
          => call[c].cacheKey = GetCacheKeyForProduct(call[c].productID)
    /\ ServedFromCache
       => /\ last.cacheKey = GetCacheKeyForProduct(last.productID)
          /\ last.ret.list =
                OrderCacheGet(redis[GetCacheKeyForProduct(last.productID)], NoError).orders
          /\ \A o \in ItemsOf(last.ret.list) : o.ProductID = last.productID

\* A read of "p2" is served the empty list cached for "p2" while the cache
\* holds, under the key of "p1", the stored order of "p1".
C15_Witness ==
    /\ ServedFromCache
    /\ last.productID = "p2"
    /\ last.ret.list = List(<<>>)
    /\ Len(store) = 1
    /\ store[1].ProductID = "p1"
    /\ Live(redis[GetCacheKeyForProduct("p1")])
    /\ OrderCacheGet(redis[GetCacheKeyForProduct("p1")], NoError).orders = List(store)

\* C16: a quantity of zero or less is not turned away.  When the catalog
\* lookup succeeds with an available quantity of zero or more and the
\* requested quantity is zero or less, the stock check passes and the store
\* write is attempted; unless the write fails, an Order with that quantity
\* and totalPrice = unitPrice * quantity is in the store and is returned, and
\* an event carrying that quantity was handed to the publisher.
C16_NonPositiveQuantityAccepted ==
    (/\ CreateReturned
     /\ last.fetchErr = NoError
     /\ last.product.Qty >= 0
     /\ last.quantity <= 0)
    => /\ last.ret.err # ErrInsufficientStock
       /\ last.nStoreWrite = 1
       /\ last.storeErr = NoError
          => /\ last.ret.err = NoError
             /\ last.ret.order = last.order
             /\ last.order.Quantity = last.quantity
             /\ last.order.TotalPrice = last.product.Price * last.quantity
             /\ InStore(last.order)
             /\ last.nPublish = 1
             /\ last.event.quantity = last.quantity

\* An order for minus one unit, with a negative total, is in the store and
\* its event was delivered.
C16_Witness ==
    /\ CreateReturned
    /\ last.quantity = -1
    /\ last.ret.err = NoError
    /\ last.ret.order.Quantity = -1
    /\ last.ret.order.TotalPrice = -(last.product.Price)
    /\ InStore(last.ret.order)
    /\ last.pubErr = NoError
    /\ last.event = [productId |-> last.productID, quantity |-> -1]

\* A step of a CreateOrder call: its arrival, its store write, or its return.
CreateStep ==
    \/ \E c \in Calls :
          /\ call'[c] # call[c]
          /\ call[c].op = "create" \/ call'[c].op = "create"
    \/ last' # last /\ last'.op = "create"

\* An order of the product asked for is in the store and not in the result.
MissesStoredOrder(rec) ==
    \E i \in 1..Len(store) :
       /\ store[i].ProductID = rec.productID
       /\ store[i] \notin ItemsOf(rec.ret.list)

\* A GetOrdersByProductID call returns in this step.
ListReturns == last' # last /\ last'.pc = "done" /\ last'.op = "list"

StoredOrdersOf(p, list) ==
    \A o \in ItemsOf(list) : o.ProductID = p /\ InStore(o)

C18_WhenGetReportedNoError ==
    /\ \A p \in Products :
          EntryKind(redis[GetCacheKeyForProduct(p)]) = "array"
          => StoredOrdersOf(p, EntryOrders(redis[GetCacheKeyForProduct(p)]))
    /\ (ListReturned /\ last.ret.err = NoError /\ last.getErr = NoError)
       => StoredOrdersOf(last.productID, last.ret.list)

\* C19: reads are not coalesced.  Every call whose cache read gave nil
\* queries the store itself, whichever other call is doing the same, and,
\* when the query succeeds, writes the cache itself; a cache write that
\* succeeds replaces whatever the key holds, so that after the return of
\* the call that wrote last the key holds the list that call fetched,
\* whatever the store holds by then.
C19_LastCacheWriteWins ==
    /\ \A c \in Calls :
          AtStore(c) => call[c].cachedOrders.isNil /\ call[c].nCacheSet = 0
    /\ (ListReturned /\ last.cachedOrders.isNil /\ last.storeErr = NoError)
       => last.nStoreQuery = 1 /\ last.nCacheSet = 1
    /\ (ListReturned /\ last.nCacheSet = 1 /\ last.setErr = NoError)
       => redis[last.cacheKey] =
             [present |-> TRUE, val |-> MarshalOrders(last.orders), ttl |-> CacheTTL]

\* A read is served from the cache, without error, a list that lacks an
\* order of the product which a read that met no cache error had been given
\* before this read began.
C19_Witness ==
    /\ ServedFromCache
    /\ last.getErr = NoError
    /\ \E o \in given :
          /\ o.ProductID = last.productID
          /\ o \notin ItemsOf(last.ret.list)

====
